---- MODULE Spec2Model ----
(***************************************************************************)
(* HttpFT (minemeld/ft/http.py): a node that polls an HTTP feed, keeps an  *)
(* indicator table indexed by _updated, emits update/withdraw events and   *)
(* is started and stopped by its host.                                     *)
(*                                                                         *)
(* One action is one stretch of the background greenlet between two        *)
(* suspension points (the HTTP reads and the gevent sleeps), or one call   *)
(* of the control surface.  Time is what utc_millisec() returns: a         *)
(* suspended greenlet resumes at any later time, and a gevent.sleep(d)     *)
(* resumes d or more after it was called.                                  *)
(*                                                                         *)
(* Spec is the node with its control surface.  SpecRPC adds the RPC        *)
(* handlers to a node that never backs off, SpecStored starts over a store *)
(* of two records, SpecSleep follows one cycle of any length to its sleep, *)
(* SpecMiss follows the cycles that come one interval after another, and   *)
(* SpecLive is the node never stopped, with the fairness of the gevent     *)
(* scheduler.                                                              *)
(***************************************************************************)
EXTENDS Integers, Sequences, FiniteSets, TLC

\* ------------------------------------------------------------------ bounds
MaxClock == 4     \* of each second, the milliseconds 0..MaxClock are followed
MaxFetches == 3   \* requests.get calls explored
MaxLines == 2     \* lines read from one response
MaxEvents == 3    \* events kept in the emitted log
MaxGlets == 2     \* greenlets gevent can be asked to spawn

Glets == 1..MaxGlets
NoGlet == 0       \* self.glet = None

\* ----------------------------------------------------------------- strings
\* A Python str is a sequence of one-character strings.  The characters
\* str.strip() and str.split() take for whitespace: blank, tab, line feed,
\* carriage return, form feed and vertical tab.
Whitespace == {" ", "\t", "\n", "\r", "\f", ""}
PyNone == <<"None">>

RECURSIVE LStrip(_)
LStrip(s) == IF s # <<>> /\ Head(s) \in Whitespace THEN LStrip(Tail(s)) ELSE s

RECURSIVE RStrip(_)
RStrip(s) ==
    IF s # <<>> /\ s[Len(s)] \in Whitespace THEN RStrip(SubSeq(s, 1, Len(s) - 1)) ELSE s

\* str.strip()
Strip(s) == RStrip(LStrip(s))

\* str.startswith(p)
StartsWith(s, p) == Len(p) <= Len(s) /\ SubSeq(s, 1, Len(p)) = p

RECURSIVE TakeToken(_)
TakeToken(s) ==
    IF s = <<>> \/ Head(s) \in Whitespace THEN <<>> ELSE <<Head(s)>> \o TakeToken(Tail(s))

\* str.split()[0] of a string that holds a token
FirstToken(s) == TakeToken(LStrip(s))

\* str.split(sep) for a separator of one character or more: the pieces
\* between the occurrences of sep, taken from the left
RECURSIVE SplitOn(_, _, _)
SplitOn(s, sep, cur) ==
    IF s = <<>> THEN <<cur>>
    ELSE IF StartsWith(s, sep)
         THEN <<cur>> \o SplitOn(SubSeq(s, Len(sep) + 1, Len(s)), sep, <<>>)
    ELSE SplitOn(Tail(s), sep, Append(cur, Head(s)))

\* toks[pos]: a negative position counts from the end, and a position
\* outside the list raises IndexError
IndexRaises(toks, pos) == pos >= Len(toks) \/ pos < -Len(toks)
Index(toks, pos) == IF pos < 0 THEN toks[Len(toks) + pos + 1] ELSE toks[pos + 1]

\* The lines a response body may hold: an indicator, an indicator followed by
\* a tab and a note, a comment and a blank line.
Lines == { <<"a">>, <<"b", "\t", "n">>, <<"#", "a">>, <<" ">> }
Indicators == { <<"a">>, <<"b">> }

\* ------------------------------------------------------------------ config
\* Time is counted in the milliseconds of utc_millisec().
Second == 1000
\* Line 130: random.randint(1, 5) seconds
Backoffs == { Second * n : n \in 1..5 }
\* Line 186: random.randint(0, 2) seconds
Jitters == { Second * n : n \in 0..2 }

\* interval_ms is self.interval*1000 of lines 136 and 141: the intervals
\* configured are thousandths of a second.
Config(interval, force, retries, reinit) ==
    [ source_name |-> <<"s">>, cchar |-> <<"#">>, split_char |-> PyNone, split_pos |-> 0,
      interval_ms |-> interval, force_updates |-> force, num_retries |-> retries,
      reinit_flag |-> reinit ]

\* The configurations explored: each option takes each of its values.
Configs ==
    { Config(2, FALSE, 2, TRUE), Config(3, TRUE, 0, FALSE), Config(2, FALSE, 1, FALSE) }

VARIABLES
    cfg,              \* self.config after configure(), and reinit_flag
    clock,            \* the time, in utc_millisec() units, of the latest step
    table,            \* self.table: indicator -> attributes
    emitted,          \* the events handed to emit_update / emit_withdraw, in order
    glet,             \* self.glet: NoGlet or a greenlet
    task,             \* the greenlets: state, position in _run, locals
    active_requests,  \* self.active_requests
    nfetch,           \* requests.get calls made so far
    miss,             \* history: per key, the completed cycles it has just missed
    written,          \* history: the cycle under way has changed the table or the log
    rpc               \* the RPC handler that has just returned, and its outcome

vars == <<cfg, clock, table, emitted, glet, task, active_requests, nfetch, miss, written, rpc>>

\* ------------------------------------------------------------------- table
\* table.Table: put / get / delete / query on the _updated index.
TableHas(tbl, k) == k \in DOMAIN tbl

TablePut(tbl, k, v) == [x \in DOMAIN tbl \cup {k} |-> IF x = k THEN v ELSE tbl[x]]

TableDelete(tbl, k) == [x \in DOMAIN tbl \ {k} |-> tbl[x]]

NumIndicators(tbl) == Cardinality(DOMAIN tbl)

\* A bound of a query: None, or an integer of any sign.
NoKey == <<>>
Key(n) == <<n>>

\* The keys whose _updated lies in the queried range; a bound that is None
\* does not bound, from_key is included and to_key is not.
InRange(tbl, from_key, to_key) ==
    { k \in DOMAIN tbl :
        /\ (from_key = NoKey \/ tbl[k]._updated >= from_key[1])
        /\ (to_key = NoKey \/ tbl[k]._updated < to_key[1]) }

\* The orders in which a query may yield a set of keys: ascending _updated,
\* keys of equal _updated in either order.
Orders(tbl, S) ==
    { q \in [1..Cardinality(S) -> S] :
        /\ \A i, j \in 1..Cardinality(S) : i # j => q[i] # q[j]
        /\ \A i, j \in 1..Cardinality(S) : i < j => tbl[q[i]]._updated <= tbl[q[j]]._updated }

TableQuery(tbl, from_key, to_key) == Orders(tbl, InRange(tbl, from_key, to_key))

\* ------------------------------------------------------------------ events
\* emit_withdraw called where emit_update is meant
UpdateEvWithdrawn(i, v) == [type |-> "withdraw", indicator |-> i, value |-> v]
UpdateEv(i, v) == [type |-> "update", indicator |-> i, value |-> v]
WithdrawEv(i, v) == [type |-> "withdraw", indicator |-> i, value |-> v]

\* emit_update for every (i, v) of a query result
RECURSIVE EmitAll(_, _, _)
EmitAll(log, tbl, q) ==
    IF q = <<>> THEN log ELSE EmitAll(Append(log, UpdateEv(Head(q), tbl[Head(q)])), tbl, Tail(q))

\* -------------------------------------------------------------------- init
NewTask ==
    [ st |-> "unborn", pc |-> "start", tryn |-> 0, lastrun |-> 0, now |-> 0,
      since |-> 0, deltat |-> 0, seen |-> {}, nread |-> 0, line |-> PyNone,
      last |-> "none" ]

OldRecord(c) ==
    [sources |-> <<c.source_name>>, _updated |-> 0, first_seen |-> 0, last_seen |-> 0]

\* What the table may hold when the node is constructed: a record an earlier
\* run left at time 0, or, on a fresh start, nothing.  The node is constructed
\* later than time 0 by more than the one unit the scan of line 101 allows for.
InitTables(c) ==
    { [k \in {<<"a">>} |-> OldRecord(c)] } \cup (IF c.reinit_flag THEN { <<>> } ELSE {})

NoMiss == [k \in Indicators |-> [n |-> 0, w |-> 0]]

\* No RPC handler has just returned.
NoCall == [op |-> "none"]

Init ==
    /\ cfg \in Configs
    /\ clock = 2
    /\ table \in InitTables(cfg)
    /\ emitted = <<>>
    /\ glet = NoGlet
    /\ task = [g \in Glets |-> NewTask]
    /\ active_requests = {}
    /\ nfetch = 0
    /\ miss = NoMiss
    /\ written = FALSE
    /\ rpc = NoCall

\* ------------------------------------------------- _polling_loop, per line
Skip == [kind |-> "skip", line |-> <<>>]
Keep(line) == [kind |-> "line", line |-> line]
Throw == [kind |-> "raise", line |-> <<>>]

\* Lines 61-73: strip, drop blank and comment lines, pick the split token.
\* str.split raises ValueError on an empty separator, and toks[split_pos]
\* raises IndexError on a negative split_pos that reaches before the list.
Normalize(c, raw) ==
    LET line == Strip(raw) IN
    IF line = <<>> THEN Skip
    ELSE IF c.cchar # PyNone /\ StartsWith(line, c.cchar) THEN Skip
    ELSE IF c.split_char # PyNone
         THEN IF c.split_char = <<>> THEN Throw
              ELSE LET toks == SplitOn(line, c.split_char, <<>>) IN
                   IF Len(toks) < c.split_pos + 1 THEN Skip
                   ELSE IF IndexRaises(toks, c.split_pos) THEN Throw
                   ELSE Keep(Strip(Index(toks, c.split_pos)))
         ELSE Keep(line)

\* _process_line: line.split()[0] raises IndexError on a line with no token.
ProcessLineRaises(line) == Strip(line) = <<>>
ProcessLine(line) == FirstToken(line)

\* Whether processing raw raises inside the for loop.
LineRaises(c, raw) ==
    LET n == Normalize(c, raw) IN
    n.kind = "raise" \/ (n.kind = "line" /\ ProcessLineRaises(n.line))

\* a comparison that finds every pair different
ValuesCompareDiffer(d1, d2) == FALSE
\* _values_compare
ValuesCompare(d1, d2) == TRUE

\* a decision that takes a key not yet stored for one with nothing to report
SendUpdateStored(found, force, equal) == found /\ (force \/ ~equal)
\* a decision that does not read force_updates
SendUpdateNoForce(found, force, equal) == ~(found /\ equal)
\* Lines 89-92: the emission decision; equal is read only when found and
\* not force.
SendUpdate(found, force, equal) == ~(found /\ ~force /\ equal)

\* _updated carried over from the stored record, as first_seen is
StampUpdatedCarry(tbl, k, t) == IF TableHas(tbl, k) THEN tbl[k]._updated ELSE t
\* Line 80: attributes['_updated'] = utc_millisec()
StampUpdated(tbl, k, t) == t

\* Lines 83-86: first_seen is carried over from the stored record, or read
\* from the clock.
FirstSeen(tbl, k, t) == IF TableHas(tbl, k) THEN tbl[k].first_seen ELSE t

\* The times followed from time clk on: the rest of the milliseconds of its
\* second that are followed.  A greenlet suspended at clk resumes at one of
\* them, and a clock read after clk returns one of them.
Later(clk) == clk..(Second * (clk \div Second) + MaxClock)

\* The three clock reads of lines 80, 86 and 87: utc_millisec() may advance
\* by one unit between the first and the last.
Skew == {0, 1}
LineReads(t) ==
    { r \in [u : {t}, f : {t + d : d \in Skew}, l : {t + d : d \in Skew}] :
        r.f <= r.l /\ r.l \in Later(t) }

Attributes(c, tbl, k, r) ==
    [ sources |-> <<c.source_name>>, _updated |-> StampUpdated(tbl, k, r.u),
      first_seen |-> FirstSeen(tbl, k, r.f), last_seen |-> r.l ]

\* ------------------------------------------------- _polling_loop, the scan
\* to_key=now, a scan that also takes the records of T-1
StaleToKeyNow(now) == now
\* Line 101: to_key=now-1
StaleToKey(now) == now - 1

\* a scan that withdraws and does not delete
RemoveOldKeep(tbl, i) == tbl
\* Line 104: self.table.delete(i)
RemoveOld(tbl, i) == TableDelete(tbl, i)

RECURSIVE RemoveAll(_, _)
RemoveAll(tbl, q) == IF q = <<>> THEN tbl ELSE RemoveAll(RemoveOld(tbl, Head(q)), Tail(q))

\* Line 105: one withdraw per removed key, in query order
RECURSIVE WithdrawAll(_, _, _)
WithdrawAll(c, log, q) ==
    IF q = <<>> THEN log
    ELSE WithdrawAll(c, Append(log, WithdrawEv(Head(q), [sources |-> <<c.source_name>>])), Tail(q))

\* --------------------------------------------------------- _run, the sleep
\* a remaining time that leaves the interval out
DeltatNoInterval(lastrun, interval_ms, now) == lastrun - now
\* Line 136: deltat = (lastrun+self.interval*1000)-now
Deltat(lastrun, interval_ms, now) == (lastrun + interval_ms) - now

\* an if in the place of the while
OverrunOnce(deltat, interval_ms) == IF deltat < 0 THEN deltat + interval_ms ELSE deltat
\* Lines 138-141: while deltat < 0: deltat += self.interval*1000
RECURSIVE Overrun(_, _)
Overrun(deltat, interval_ms) ==
    IF deltat < 0 THEN Overrun(deltat + interval_ms, interval_ms) ELSE deltat

\* Lines 133-143: reset the retry counter and go to the inter-cycle sleep.
\* The locals no later line reads are cleared: lastrun and the line count.
Schedule(c, t, clk) ==
    [t EXCEPT !.tryn = 0, !.pc = "sleep", !.since = clk, !.lastrun = 0, !.nread = 0,
              !.line = PyNone,
              !.deltat = Overrun(Deltat(t.lastrun, c.interval_ms, clk), c.interval_ms)]

\* _polling_loop was left by an exception: its locals are gone.
Raised(t) ==
    [t EXCEPT !.last = "error", !.now = 0, !.seen = {}, !.nread = 0, !.line = PyNone]

\* an except branch that lets the last exception out of _run
OnExceptionFatal(c, t, clk, backoff) ==
    IF t.tryn + 1 < c.num_retries
    THEN [Raised(t) EXCEPT !.tryn = @ + 1, !.pc = "backoff", !.since = clk,
                           !.deltat = backoff, !.lastrun = 0]
    ELSE [Raised(t) EXCEPT !.st = "dead"]
\* a test of the counter before its increment
OnExceptionLate(c, t, clk, backoff) ==
    IF t.tryn < c.num_retries
    THEN [Raised(t) EXCEPT !.tryn = @ + 1, !.pc = "backoff", !.since = clk,
                           !.deltat = backoff, !.lastrun = 0]
    ELSE Schedule(c, Raised(t), clk)
\* Lines 126-131: the except branch, the backoff sleep or the fall through.
OnException(c, t, clk, backoff) ==
    IF t.tryn + 1 < c.num_retries
    THEN [Raised(t) EXCEPT !.tryn = @ + 1, !.pc = "backoff", !.since = clk,
                           !.deltat = backoff, !.lastrun = 0]
    ELSE Schedule(c, Raised(t), clk)

\* Lines 120 and 48-52: lastrun, now, and the request goes out.
BeginCycle(t, lastrun, now) ==
    [t EXCEPT !.st = "running", !.pc = "request", !.lastrun = lastrun, !.now = now,
              !.since = 0, !.deltat = 0, !.seen = {}, !.nread = 0]

CycleReads(t) ==
    { r \in [lastrun : {t}, now : {t + d : d \in Skew}] : r.now \in Later(t) }

\* --------------------------------------------------------- the greenlets
Live(t) == t.st \in {"scheduled", "running"}

\* The request of a greenlet is out from requests.get until the line
\* iterator is exhausted or the frame of _polling_loop is left.
InFlight(t) == t.st = "running" /\ t.pc \in {"request", "lines"}

\* A dead greenlet has no frame: only where it ended is kept.
Dead(t) == [NewTask EXCEPT !.st = "dead", !.pc = t.pc, !.last = "killed"]

\* a kill that reaches the greenlet only in a sleep, not in an HTTP read
KillSleeping(t) == IF Live(t) /\ t.pc \notin {"request", "lines"} THEN Dead(t) ELSE t
\* Greenlet.kill(): GreenletExit is raised where the greenlet is suspended;
\* lines 124-125 return from _run, a sleep lets it leave _run; a greenlet
\* not yet started never starts.
Kill(t) == IF Live(t) THEN Dead(t) ELSE t

\* ------------------------------------------------------------ start, stop
FreeGlets == { g \in Glets : task[g].st = "unborn" }
NewGlet == CHOOSE g \in FreeGlets : \A h \in FreeGlets : g <= h

\* a start() that does not look at self.glet
StartReturnsNever(gl) == FALSE
\* Lines 183-184: if self.glet is not None: return
StartReturns(gl) == gl # NoGlet

\* self.glet and the greenlets after start(): the timer of spawn_later is
\* set at the time of the call for the delay drawn
StartGlet == IF StartReturns(glet) \/ FreeGlets = {} THEN glet ELSE NewGlet
StartTask(delay) ==
    IF StartReturns(glet) \/ FreeGlets = {} THEN task
    ELSE [task EXCEPT ![NewGlet] = [@ EXCEPT !.st = "scheduled", !.since = clock,
                                               !.deltat = delay]]

Start ==
    /\ glet' = StartGlet
    /\ \E d \in Jitters : task' = StartTask(d)
    /\ rpc' = NoCall
    /\ UNCHANGED <<cfg, clock, table, emitted, active_requests, nfetch, miss, written>>

\* Lines 189-190: if self.glet is None: return
StopReturns(gl) == gl = NoGlet

\* the greenlets after stop(): lines 192-195
StopTask ==
    IF StopReturns(glet) THEN task
    ELSE [g \in Glets |-> IF g \in active_requests \cup {glet} THEN Kill(task[g]) ELSE task[g]]

Stop ==
    /\ task' = StopTask
    /\ written' = IF StopReturns(glet) THEN written ELSE FALSE
    /\ rpc' = NoCall
    /\ UNCHANGED <<cfg, clock, table, emitted, glet, active_requests, nfetch, miss>>

\* ------------------------------------------------------------------- _run
\* a test of the flag without its not
ResyncOnReinit(c, log, tbl, q) == IF c.reinit_flag THEN EmitAll(log, tbl, q) ELSE log
\* Lines 113-117: the events emitted on entry.
Resync(c, log, tbl, q) == IF ~c.reinit_flag THEN EmitAll(log, tbl, q) ELSE log

\* The timer of spawn_later fires, the delay or more after start(): _run up
\* to the first requests.get.
Run(g) ==
    /\ task[g].st = "scheduled"
    /\ nfetch < MaxFetches
    /\ \E q \in TableQuery(table, NoKey, NoKey), t \in Later(task[g].since + task[g].deltat) :
      \E r \in CycleReads(t) :
        /\ Len(Resync(cfg, emitted, table, q)) <= MaxEvents
        /\ emitted' = Resync(cfg, emitted, table, q)
        /\ task' = [task EXCEPT ![g] = BeginCycle(@, r.lastrun, r.now)]
        /\ clock' = r.now
    /\ nfetch' = nfetch + 1
    /\ written' = FALSE
    /\ rpc' = NoCall
    /\ UNCHANGED <<cfg, table, glet, active_requests, miss>>

\* requests.get raises (connection error, timeout).
RequestError(g) ==
    /\ task[g].st = "running" /\ task[g].pc = "request"
    /\ \E b \in Backoffs, t \in Later(clock) :
        /\ task' = [task EXCEPT ![g] = OnException(cfg, @, t, b)]
        /\ clock' = t
    /\ written' = IF task'[g].pc = "sleep" THEN FALSE ELSE written
    /\ rpc' = NoCall
    /\ UNCHANGED <<cfg, table, emitted, glet, active_requests, nfetch, miss>>

\* Line 58: raise_for_status on a response that is not 2xx.
StatusError(g) ==
    /\ task[g].st = "running" /\ task[g].pc = "request"
    /\ \E b \in Backoffs, t \in Later(clock) :
        /\ task' = [task EXCEPT ![g] = OnException(cfg, @, t, b)]
        /\ clock' = t
    /\ written' = IF task'[g].pc = "sleep" THEN FALSE ELSE written
    /\ rpc' = NoCall
    /\ UNCHANGED <<cfg, table, emitted, glet, active_requests, nfetch, miss>>

\* A 2xx response: the loop over r.iter_lines() begins.
RequestOK(g) ==
    /\ task[g].st = "running" /\ task[g].pc = "request"
    /\ task' = [task EXCEPT ![g].pc = "lines"]
    /\ rpc' = NoCall
    /\ UNCHANGED <<cfg, clock, table, emitted, glet, active_requests, nfetch, miss, written>>

NoMissOf == [n |-> 0, w |-> 0]

\* Lines 60-99 for one line of the response.
NextLine(g) ==
    /\ task[g].st = "running" /\ task[g].pc = "lines"
    /\ task[g].nread < MaxLines
    /\ \E raw \in Lines :
        /\ ~LineRaises(cfg, raw)
        /\ LET n == Normalize(cfg, raw) IN
           IF n.kind = "skip"
           THEN /\ task' = [task EXCEPT ![g].nread = @ + 1, ![g].line = raw]
                /\ UNCHANGED <<clock, table, emitted, miss>>
           ELSE \E t \in Later(clock) : \E r \in LineReads(t) :
                LET k == ProcessLine(n.line)
                    found == TableHas(table, k)
                    attrs == Attributes(cfg, table, k, r)
                    equal == IF found THEN ValuesCompare(table[k], attrs) ELSE FALSE
                    send == SendUpdate(found, cfg.force_updates, equal)
                IN  /\ send => Len(emitted) < MaxEvents
                    /\ table' = TablePut(table, k, attrs)
                    /\ emitted' = IF send THEN Append(emitted, UpdateEv(k, attrs)) ELSE emitted
                    /\ clock' = r.l
                    /\ task' = [task EXCEPT ![g].nread = @ + 1, ![g].seen = @ \cup {k},
                                             ![g].line = raw]
                    /\ miss' = [miss EXCEPT ![k] = NoMissOf]
    /\ written' = (written \/ table' # table \/ emitted' # emitted)
    /\ rpc' = NoCall
    /\ UNCHANGED <<cfg, glet, active_requests, nfetch>>

\* The read of a line raises, or a line makes _process_line raise.
StreamError(g) ==
    /\ task[g].st = "running" /\ task[g].pc = "lines"
    /\ \E b \in Backoffs, t \in Later(clock) :
        /\ task' = [task EXCEPT ![g] = OnException(cfg, @, t, b)]
        /\ clock' = t
    /\ written' = IF task'[g].pc = "sleep" THEN FALSE ELSE written
    /\ rpc' = NoCall
    /\ UNCHANGED <<cfg, table, emitted, glet, active_requests, nfetch, miss>>

Range(q) == { q[i] : i \in DOMAIN q }

\* History: a key that was in the table at a completed cycle and absent
\* from its fetch has missed one cycle (n = 1), then two in a row (n = 2);
\* w counts the withdraws those cycles emitted for it.
MissNext(m, tbl, seen, gone, k) ==
    IF k \in seen THEN NoMissOf
    ELSE LET wd == IF k \in gone THEN 1 ELSE 0 IN
         IF m[k].n = 1 THEN [n |-> 2, w |-> m[k].w + wd]
         ELSE IF TableHas(tbl, k) THEN [n |-> 1, w |-> wd]
         ELSE NoMissOf

\* The line iterator is exhausted: lines 101-108, then 133-143.
EndOfStream(g) ==
    /\ task[g].st = "running" /\ task[g].pc = "lines"
    /\ \E q \in TableQuery(table, Key(0), Key(StaleToKey(task[g].now))), t \in Later(clock) :
        /\ Len(emitted) + Len(q) <= MaxEvents
        /\ table' = RemoveAll(table, q)
        /\ emitted' = WithdrawAll(cfg, emitted, q)
        /\ miss' = [k \in Indicators |-> MissNext(miss, table, task[g].seen, Range(q), k)]
        /\ task' = [task EXCEPT ![g] = Schedule(cfg, [@ EXCEPT !.last = "ok"], t)]
        /\ clock' = t
    /\ written' = FALSE
    /\ rpc' = NoCall
    /\ UNCHANGED <<cfg, glet, active_requests, nfetch>>

\* gevent.sleep of line 130 or line 143 returns: the next pass of the loop.
Wake(g, pc) ==
    /\ task[g].st = "running" /\ task[g].pc = pc
    /\ nfetch < MaxFetches
    /\ \E t \in Later(task[g].since + task[g].deltat) : \E r \in CycleReads(t) :
        /\ task' = [task EXCEPT ![g] = BeginCycle(@, r.lastrun, r.now)]
        /\ clock' = r.now
    /\ nfetch' = nfetch + 1
    /\ written' = IF task[g].tryn = 0 THEN FALSE ELSE written
    /\ rpc' = NoCall
    /\ UNCHANGED <<cfg, table, emitted, glet, active_requests, miss>>

BackoffWake(g) == Wake(g, "backoff")
SleepWake(g) == Wake(g, "sleep")

Next ==
    \/ Start
    \/ Stop
    \/ \E g \in Glets : Run(g)
    \/ \E g \in Glets : RequestError(g)
    \/ \E g \in Glets : StatusError(g)
    \/ \E g \in Glets : RequestOK(g)
    \/ \E g \in Glets : NextLine(g)
    \/ \E g \in Glets : StreamError(g)
    \/ \E g \in Glets : EndOfStream(g)
    \/ \E g \in Glets : BackoffWake(g)
    \/ \E g \in Glets : SleepWake(g)

Spec == Init /\ [][Next]_vars

\* ------------------------------------------------- the node left running
\* Time without end: MaxClock stands for itself and for every later time,
\* and MaxFetches for itself and every larger count.
Horizon(t) == IF t > MaxClock THEN MaxClock ELSE t
Counted(n) == IF n < MaxFetches THEN n + 1 ELSE n

\* Run, however many requests were made before.
LiveRun(g) ==
    /\ task[g].st = "scheduled"
    /\ \E q \in TableQuery(table, NoKey, NoKey),
          t \in Later(Horizon(task[g].since + task[g].deltat)) : \E r \in CycleReads(t) :
        /\ Len(Resync(cfg, emitted, table, q)) <= MaxEvents
        /\ emitted' = Resync(cfg, emitted, table, q)
        /\ task' = [task EXCEPT ![g] = BeginCycle(@, r.lastrun, r.now)]
        /\ clock' = r.now
    /\ nfetch' = Counted(nfetch)
    /\ written' = FALSE
    /\ rpc' = NoCall
    /\ UNCHANGED <<cfg, table, glet, active_requests, miss>>

\* Wake, however late the sleep ends and however many requests were made.
LiveWake(g, pc) ==
    /\ task[g].st = "running" /\ task[g].pc = pc
    /\ \E t \in Later(Horizon(task[g].since + task[g].deltat)) : \E r \in CycleReads(t) :
        /\ task' = [task EXCEPT ![g] = BeginCycle(@, r.lastrun, r.now)]
        /\ clock' = r.now
    /\ nfetch' = Counted(nfetch)
    /\ written' = IF task[g].tryn = 0 THEN FALSE ELSE written
    /\ rpc' = NoCall
    /\ UNCHANGED <<cfg, table, emitted, glet, active_requests, miss>>

LiveBackoffWake(g) == LiveWake(g, "backoff")
LiveSleepWake(g) == LiveWake(g, "sleep")

\* One step of the greenlet g.
GreenletStep(g) ==
    \/ LiveRun(g)
    \/ RequestError(g)
    \/ StatusError(g)
    \/ RequestOK(g)
    \/ NextLine(g)
    \/ StreamError(g)
    \/ LiveBackoffWake(g)
    \/ LiveSleepWake(g)

\* The node after start().
InitLive ==
    /\ cfg \in Configs
    /\ clock = 2
    /\ table \in InitTables(cfg)
    /\ emitted = <<>>
    /\ glet = 1
    /\ \E d \in Jitters :
        task = [g \in Glets |->
                  IF g = 1 THEN [NewTask EXCEPT !.st = "scheduled", !.since = 2, !.deltat = d]
                  ELSE NewTask]
    /\ active_requests = {}
    /\ nfetch = 0
    /\ miss = NoMiss
    /\ written = FALSE
    /\ rpc = NoCall

\* stop() is never called and no response is read to its end.
NextLive ==
    \/ Start
    \/ \E g \in Glets : LiveRun(g)
    \/ \E g \in Glets : RequestError(g)
    \/ \E g \in Glets : StatusError(g)
    \/ \E g \in Glets : RequestOK(g)
    \/ \E g \in Glets : NextLine(g)
    \/ \E g \in Glets : StreamError(g)
    \/ \E g \in Glets : LiveBackoffWake(g)
    \/ \E g \in Glets : LiveSleepWake(g)

\* gevent runs a greenlet whose timer has fired or whose read has ended: a
\* sleep ends, and a read of the response ends within polling_timeout with
\* data, the end of the stream or an exception.
Fairness == \A g \in Glets : WF_vars(GreenletStep(g))

SpecLive == InitLive /\ [][NextLive]_vars /\ Fairness

\* ------------------------------------------------- one cycle to its sleep
\* interval*1000, in milliseconds: the cycle may end within the interval or
\* overrun it once or several times.
Intervals == 1..3
SleepConfigs == { Config(i, FALSE, 1, TRUE) : i \in Intervals }

\* A first cycle started at time 0: lastrun and now are read, the request is
\* out.
InitSleep ==
    /\ cfg \in SleepConfigs
    /\ table = <<>>
    /\ emitted = <<>>
    /\ glet = 1
    /\ \E r \in CycleReads(0) :
        /\ clock = r.now
        /\ task = [g \in Glets |->
                     IF g = 1 THEN BeginCycle(NewTask, r.lastrun, r.now) ELSE NewTask]
    /\ active_requests = {}
    /\ nfetch = 1
    /\ miss = NoMiss
    /\ written = FALSE
    /\ rpc = NoCall

\* The cycle runs, for however long, to the sleep of line 143.
NextSleep ==
    \/ \E g \in Glets : RequestError(g)
    \/ \E g \in Glets : StatusError(g)
    \/ \E g \in Glets : RequestOK(g)
    \/ \E g \in Glets : NextLine(g)
    \/ \E g \in Glets : StreamError(g)
    \/ \E g \in Glets : EndOfStream(g)

SpecSleep == InitSleep /\ [][NextSleep]_vars

\* ------------------------------------------- cycles one interval apart
\* A cycle started at time 0 over a store that holds a record stamped at
\* time 0, in the millisecond the cycle starts in: the scan of this cycle,
\* whose now is 0 or 1, cannot take the record.
InitMiss ==
    /\ cfg \in SleepConfigs
    /\ table = [k \in {<<"a">>} |-> OldRecord(cfg)]
    /\ emitted = <<>>
    /\ glet = 1
    /\ \E r \in CycleReads(0) :
        /\ clock = r.now
        /\ task = [g \in Glets |->
                     IF g = 1 THEN BeginCycle(NewTask, r.lastrun, r.now) ELSE NewTask]
    /\ active_requests = {}
    /\ nfetch = 1
    /\ miss = NoMiss
    /\ written = FALSE
    /\ rpc = NoCall

\* The cycles follow one another, each after the sleep of line 143: within
\* the interval, at its end with a sleep of length zero, or past it.
NextMiss ==
    \/ \E g \in Glets : RequestError(g)
    \/ \E g \in Glets : StatusError(g)
    \/ \E g \in Glets : RequestOK(g)
    \/ \E g \in Glets : NextLine(g)
    \/ \E g \in Glets : StreamError(g)
    \/ \E g \in Glets : EndOfStream(g)
    \/ \E g \in Glets : SleepWake(g)

SpecMiss == InitMiss /\ [][NextMiss]_vars

\* ------------------------------------------------- a store of two records
StoredAt(c, t) ==
    [sources |-> <<c.source_name>>, _updated |-> t, first_seen |-> t, last_seen |-> t]

\* Two records an earlier run left: written at different times, the later
\* one under the smaller key, or written at the same time.
StoredTables(c) ==
    { [k \in Indicators |-> IF k = <<"a">> THEN StoredAt(c, 1) ELSE StoredAt(c, 0)],
      [k \in Indicators |-> StoredAt(c, 0)] }

InitStored ==
    /\ cfg \in Configs
    /\ clock = 2
    /\ table \in StoredTables(cfg)
    /\ emitted = <<>>
    /\ glet = NoGlet
    /\ task = [g \in Glets |-> NewTask]
    /\ active_requests = {}
    /\ nfetch = 0
    /\ miss = NoMiss
    /\ written = FALSE
    /\ rpc = NoCall

\* The node constructed over a store that holds two records.
SpecStored == InitStored /\ [][Next]_vars

\* ------------------------------------------------------------ RPC surface
\* A value a peer passes as indicator: its Python type and its text.
PyStr(s) == [type |-> "str", val |-> s]
PyUnicode(s) == [type |-> "unicode", val |-> s]
PyInt(s) == [type |-> "int", val |-> s]

GetArgs == { PyStr(<<"a">>), PyUnicode(<<"b">>), PyInt(<<"7">>) }

\* What a handler returns.
RetNone == [kind |-> "None"]
RetValue(v) == [kind |-> "value", value |-> v]
RetOK == [kind |-> "str", value |-> "OK"]
RetInt(n) == [kind |-> "int", value |-> n]

Returned(op, args, sent, ret) ==
    [op |-> op, args |-> args, error |-> "", sent |-> sent, ret |-> ret]
RaisedError(op, args, error) ==
    [op |-> op, args |-> args, error |-> error, sent |-> <<>>, ret |-> RetNone]

\* a check that lets every type through
GetRaisesNever(indicator) == FALSE
\* Line 156: if not type(indicator) in [str, unicode]
GetRaises(indicator) == indicator.type \notin {"str", "unicode"}

\* Lines 155-161
GetOutcome(tbl, indicator) ==
    IF GetRaises(indicator) THEN RaisedError("get", <<indicator>>, "ValueError")
    ELSE Returned("get", <<indicator>>, <<>>,
                  IF TableHas(tbl, indicator.val) THEN RetValue(tbl[indicator.val]) ELSE RetNone)

\* do_rpc(source, "update", indicator=i, value=v) for every (i, v) of q
RpcUpdates(tbl, q) == [n \in 1..Len(q) |-> [indicator |-> q[n], value |-> tbl[q[n]]]]

\* a loop that leaves after its first do_rpc
SendIndicatorsFirst(tbl, from_key, to_key) ==
    { RpcUpdates(tbl, IF q = <<>> THEN q ELSE <<Head(q)>>) : q \in TableQuery(tbl, from_key, to_key) }
\* _send_indicators: what the caller may be sent
SendIndicators(tbl, from_key, to_key) ==
    { RpcUpdates(tbl, q) : q \in TableQuery(tbl, from_key, to_key) }

\* The index names a peer may pass: none, the index of the table, another.
UpdatedIndex == <<"_", "u", "p", "d", "a", "t", "e", "d">>
IndexNames == { PyNone, UpdatedIndex, <<"x">> }

\* The (from_key, to_key) pairs a peer may pass.
RangeKeys == { <<Key(1), Key(4)>> }

\* Line 168: if index is not None and index != '_updated'
GetRangeRaises(index) == index # PyNone /\ index # UpdatedIndex

\* What stays as it is across the RPC handlers.
node == <<cfg, clock, table, emitted, glet, task, active_requests, nfetch, miss, written>>

Get ==
    /\ \E x \in GetArgs : rpc' = GetOutcome(table, x)
    /\ UNCHANGED node

GetAll ==
    /\ \E sent \in SendIndicators(table, NoKey, NoKey) : rpc' = Returned("get_all", <<>>, sent, RetOK)
    /\ UNCHANGED node

GetRange ==
    /\ \E index \in IndexNames, r \in RangeKeys :
        IF GetRangeRaises(index)
        THEN rpc' = RaisedError("get_range", <<index, r[1], r[2]>>, "ValueError")
        ELSE \E sent \in SendIndicators(table, r[1], r[2]) :
                rpc' = Returned("get_range", <<index, r[1], r[2]>>, sent, RetOK)
    /\ UNCHANGED node

Length ==
    /\ rpc' = Returned("length", <<>>, <<>>, RetInt(NumIndicators(table)))
    /\ UNCHANGED node

\* The handlers read the table and nothing of the greenlet: the node is
\* followed under the configurations that never back off.
RpcConfigs == { c \in Configs : c.num_retries < 2 }
InitRPC == Init /\ cfg \in RpcConfigs

\* The node with its peers calling in between the steps of the greenlet.
NextRPC ==
    \/ Start
    \/ Stop
    \/ \E g \in Glets : Run(g)
    \/ \E g \in Glets : RequestError(g)
    \/ \E g \in Glets : StatusError(g)
    \/ \E g \in Glets : RequestOK(g)
    \/ \E g \in Glets : NextLine(g)
    \/ \E g \in Glets : StreamError(g)
    \/ \E g \in Glets : EndOfStream(g)
    \/ \E g \in Glets : SleepWake(g)
    \/ Get
    \/ GetAll
    \/ GetRange
    \/ Length

SpecRPC == InitRPC /\ [][NextRPC]_vars

\* ================================================================ claims
\* What a step is, read from the greenlet before and after it.
ScanStep(g) ==
    /\ task[g].st = "running" /\ task[g].pc = "lines"
    /\ task'[g].st = "running" /\ task'[g].pc = "sleep" /\ task'[g].last = "ok"

LineStep(g) ==
    /\ task[g].st = "running" /\ task[g].pc = "lines"
    /\ task'[g].st = "running" /\ task'[g].pc = "lines"
    /\ task'[g].nread = task[g].nread + 1

\* The events a step appends to the log.
NewEvents == SubSeq(emitted', Len(emitted) + 1, Len(emitted'))

Count(log, type, k) ==
    Cardinality({ i \in DOMAIN log : log[i].type = type /\ log[i].indicator = k })

\* Between two withdraws of a key the log holds an update of it.
WithdrawOnce(log) ==
    \A k \in Indicators : \A i, j \in DOMAIN log :
        (i < j /\ log[i].type = "withdraw" /\ log[i].indicator = k
               /\ log[j].type = "withdraw" /\ log[j].indicator = k)
        => \E m \in (i + 1)..(j - 1) : log[m].type = "update" /\ log[m].indicator = k

\* C1 as stated: at the end of a successful cycle every stored record whose
\* key the fetch did not produce is deleted and withdrawn once, and a key is
\* not withdrawn twice without an update in between.
C1_Original ==
    [][ /\ \A g \in Glets, k \in Indicators :
            (ScanStep(g) /\ TableHas(table, k) /\ k \notin task[g].seen)
            => /\ ~TableHas(table', k)
               /\ Count(emitted', "withdraw", k) = Count(emitted, "withdraw", k) + 1
        /\ WithdrawOnce(emitted') ]_vars

\* C1 amended: at the end of a successful cycle started at T, a stored
\* record whose key the fetch did not produce is deleted and withdrawn once
\* when its _updated is below T-1, and is kept with no withdraw otherwise;
\* a key is not withdrawn twice without an update in between.
C1_StaleRemovedOnce ==
    [][ /\ \A g \in Glets, k \in Indicators :
            (ScanStep(g) /\ TableHas(table, k) /\ k \notin task[g].seen)
            => IF table[k]._updated < task[g].now - 1
               THEN /\ ~TableHas(table', k)
                    /\ Count(emitted', "withdraw", k) = Count(emitted, "withdraw", k) + 1
               ELSE /\ TableHas(table', k) /\ table'[k] = table[k]
                    /\ Count(emitted', "withdraw", k) = Count(emitted, "withdraw", k)
        /\ WithdrawOnce(emitted') ]_vars

\* A cycle has completed that fetched neither of two stored keys: one is
\* gone and was withdrawn once, the other is still stored.
C1_Witness ==
    \E g \in Glets :
        /\ task[g].st = "running" /\ task[g].pc = "sleep" /\ task[g].last = "ok"
        /\ \E k, j \in Indicators \ task[g].seen :
            /\ ~TableHas(table, k) /\ Count(emitted, "withdraw", k) = 1
            /\ TableHas(table, j) /\ Count(emitted, "withdraw", j) = 0

\* The step of g has processed a line that yields the indicator k.
Sighted(g, k) ==
    /\ LineStep(g)
    /\ Normalize(cfg, task'[g].line).kind = "line"
    /\ ProcessLine(Normalize(cfg, task'[g].line).line) = k

\* The cycle of greenlet g has completed and g is in the inter-cycle sleep.
CycleDone(g) == task[g].st = "running" /\ task[g].pc = "sleep" /\ task[g].last = "ok"

\* C2: the scan that ends a successful cycle started at T deletes exactly
\* the stored records whose _updated is below T-1, and emits for exactly
\* those keys one withdraw each, with the payload {sources: [source_name]}.
C2_StaleScanExact ==
    [][ \A g \in Glets :
          ScanStep(g) =>
            LET stale == { k \in DOMAIN table : table[k]._updated < task[g].now - 1 } IN
            /\ DOMAIN table' = DOMAIN table \ stale
            /\ \A k \in DOMAIN table' : table'[k] = table[k]
            /\ Len(NewEvents) = Cardinality(stale)
            /\ { NewEvents[i].indicator : i \in DOMAIN NewEvents } = stale
            /\ \A i \in DOMAIN NewEvents :
                 /\ NewEvents[i].type = "withdraw"
                 /\ NewEvents[i].value = [sources |-> <<cfg.source_name>>] ]_vars

\* A scan has withdrawn one record and kept another whose _updated is T-1.
C2_Witness ==
    \E g \in Glets :
        /\ CycleDone(g)
        /\ emitted # <<>> /\ emitted[Len(emitted)].type = "withdraw"
        /\ \E k \in DOMAIN table : table[k]._updated = task[g].now - 1

\* C3: when a successful cycle started at T ends, every key its fetch
\* produced is stored with _updated >= T, and the scan of that cycle has
\* neither deleted it nor withdrawn it.
C3_RefreshedSurvive ==
    [][ \A g \in Glets :
          ScanStep(g) =>
            \A k \in task[g].seen :
              /\ TableHas(table, k) /\ table[k]._updated >= task[g].now
              /\ TableHas(table', k) /\ table'[k] = table[k]
              /\ Count(emitted', "withdraw", k) = Count(emitted, "withdraw", k) ]_vars

\* A cycle has completed whose fetch produced a key, later than it began.
C3_Witness ==
    \E g \in Glets :
        /\ CycleDone(g)
        /\ \E k \in task[g].seen : TableHas(table, k) /\ table[k]._updated > task[g].now

\* C4 as stated: a key that was stored when a successful cycle ended
\* without fetching it, and that the next successful cycle did not fetch
\* either, has been withdrawn exactly once by the two and is no longer
\* stored, whatever the interval and the timing of the cycles.
C4_Original ==
    \A k \in Indicators : miss[k].n = 2 => (miss[k].w = 1 /\ ~TableHas(table, k))

\* C4: with an interval of two milliseconds or more, a key that was stored
\* when a successful cycle ended without fetching it, and that the next
\* successful cycle did not fetch either, has been withdrawn exactly once
\* by the two and is no longer stored, for every timing of the cycles.
C4_TwoMisses ==
    \A k \in Indicators :
        (cfg.interval_ms >= 2 /\ miss[k].n = 2) => (miss[k].w = 1 /\ ~TableHas(table, k))

\* The record stamped at 0 was out of reach of the scan of the first cycle,
\* started at 0; that cycle went on past its interval of 2, and the second,
\* started at 4 with no cycle in between, has withdrawn the record.
C4_Witness ==
    /\ cfg.interval_ms = 2 /\ nfetch = 2
    /\ miss[<<"a">>] = [n |-> 2, w |-> 1] /\ ~TableHas(table, <<"a">>)
    /\ emitted = <<WithdrawEv(<<"a">>, [sources |-> <<cfg.source_name>>])>>
    /\ \E g \in Glets : CycleDone(g) /\ task[g].now = 4

\* C5: with force_updates off and the default _values_compare, a line whose
\* key is already stored emits nothing, and the stored record is replaced:
\* first_seen is kept, _updated and last_seen are those of this sighting.
C5_RepeatSuppressed ==
    [][ \A g \in Glets, k \in Indicators :
          (Sighted(g, k) /\ ~cfg.force_updates /\ TableHas(table, k))
          => /\ emitted' = emitted
             /\ TableHas(table', k)
             /\ table'[k].first_seen = table[k].first_seen
             /\ table'[k]._updated >= clock /\ table'[k]._updated <= clock'
             /\ table'[k]._updated >= table[k]._updated
             /\ table'[k].last_seen = clock'
             /\ table'[k].last_seen >= table[k].last_seen ]_vars

\* With force_updates off, a stored key has been sighted again, later, and
\* no update was ever emitted for it.
C5_Witness ==
    /\ ~cfg.force_updates
    /\ \E k \in DOMAIN table :
        /\ table[k]._updated > table[k].first_seen + 1
        /\ Count(emitted, "update", k) = 0

\* C6: with force_updates on, every line that yields a key emits an update
\* for it carrying the record just stored, whether the key was stored before
\* or not.
C6_ForceAlwaysEmits ==
    [][ \A g \in Glets, k \in Indicators :
          (Sighted(g, k) /\ cfg.force_updates)
          => /\ TableHas(table', k)
             /\ emitted' = Append(emitted, UpdateEv(k, table'[k])) ]_vars

\* With force_updates on, a key was updated twice with no withdraw between.
C6_Witness ==
    /\ cfg.force_updates
    /\ \E i, j \in DOMAIN emitted :
        /\ i < j
        /\ emitted[i].type = "update" /\ emitted[j].type = "update"
        /\ emitted[i].indicator = emitted[j].indicator
        /\ emitted[j].value._updated > emitted[i].value._updated
        /\ \A m \in i..j : emitted[m].type = "update"

\* The greenlets that exist: scheduled or running.
LiveGlets == { g \in Glets : Live(task[g]) }

\* C7: at most one greenlet is scheduled or running; while one is, start()
\* changes nothing; while none is, stop() changes nothing.
C7_OneTask ==
    /\ Cardinality(LiveGlets) <= 1
    /\ LiveGlets # {} => (StartGlet = glet /\ \A d \in Jitters : StartTask(d) = task)
    /\ LiveGlets = {} => StopTask = task

\* start() and then stop() have been called: the one greenlet is dead.
C7_Witness ==
    /\ glet # NoGlet /\ task[glet].st = "dead"
    /\ \A g \in Glets \ {glet} : task[g].st = "unborn"

\* C8 as stated: start() changes nothing while a greenlet is scheduled or
\* running, and in every other state it schedules one.
C8_Original ==
    /\ LiveGlets # {} => (StartGlet = glet /\ \A d \in Jitters : StartTask(d) = task)
    /\ LiveGlets = {} =>
         (StartGlet # NoGlet /\ \A d \in Jitters : StartTask(d)[StartGlet].st = "scheduled")

\* stop() has been called on a started node.
Stopped == glet # NoGlet /\ ~Live(task[glet])

\* C9: wherever the greenlet is suspended, stop() ends it there, as a kill
\* and not as an error, and once it has, no step writes the table, emits an
\* event or makes a request.
C9_StopIsFinal ==
    /\ [](glet # NoGlet /\ Live(task[glet])
            => /\ StopTask[glet].st = "dead" /\ StopTask[glet].last = "killed"
               /\ StopTask[glet].pc = task[glet].pc)
    /\ [][Stopped => (Stopped' /\ UNCHANGED <<table, emitted, nfetch>>)]_vars

\* stop() was called while the response was being read, after a line of it
\* had been stored.
C9_Witness ==
    /\ Stopped /\ task[glet].pc = "lines" /\ task[glet].last = "killed"
    /\ table # <<>> /\ nfetch > 0

\* C10 as stated: the request of a poll cycle in flight is a member of
\* active_requests.
C10_Original ==
    \A g \in Glets : InFlight(task[g]) => g \in active_requests

\* ---------------------------------------------------------------- RPC
\* What the RPC handlers must leave alone: the store, the events, the
\* greenlet with its retry counter and its sleeps.
Polling == <<table, emitted, glet, task, active_requests, clock, nfetch>>

Ascending(sent) ==
    \A i, j \in DOMAIN sent : i < j => sent[i].value._updated <= sent[j].value._updated

\* C11: get() with a key that is not a string and get_range() with an index
\* name that is neither absent nor '_updated' raise ValueError, send the
\* caller nothing and leave the store, the retry counter and the schedule
\* as they were; get() with a string and get_range() with no index name or
\* with '_updated' do not raise.
C11_InvalidInput ==
    /\ [](rpc.op = "get"
            => (rpc.error = "ValueError" <=> rpc.args[1].type \notin {"str", "unicode"}))
    /\ [](rpc.op = "get_range"
            => (rpc.error = "ValueError" <=> rpc.args[1] \notin {PyNone, UpdatedIndex}))
    /\ [](rpc.op \in {"get", "get_range"} /\ rpc.error # ""
            => rpc.sent = <<>> /\ rpc.ret = RetNone)
    /\ [][(rpc' # NoCall /\ rpc'.error # "") => UNCHANGED Polling]_vars

\* get() was refused for a key that is not a string while the greenlet was
\* in the sleep that follows a failed cycle, with a record stored.
C11_Witness ==
    /\ rpc.op = "get" /\ rpc.error = "ValueError" /\ rpc.args[1].type = "int"
    /\ table # <<>>
    /\ \E g \in Glets : task[g].st = "running" /\ task[g].pc = "sleep" /\ task[g].last = "error"

\* C12: get_all() sends the caller one update per record of the store as
\* it is at the call, each with the stored value, in ascending _updated
\* order, and returns 'OK'; get_all(), get(), get_range() and length()
\* leave the store as it was.
C12_GetAllSnapshot ==
    /\ [][rpc'.op = "get_all"
            => /\ Len(rpc'.sent) = NumIndicators(table)
               /\ { rpc'.sent[i].indicator : i \in DOMAIN rpc'.sent } = DOMAIN table
               /\ \A i \in DOMAIN rpc'.sent : rpc'.sent[i].value = table[rpc'.sent[i].indicator]
               /\ Ascending(rpc'.sent)
               /\ rpc'.error = "" /\ rpc'.ret = RetOK]_vars
    /\ [][rpc' # NoCall => table' = table]_vars

\* get_all() has sent two records of different _updated while the greenlet
\* was reading the response, one line of it processed.
C12_Witness ==
    /\ rpc.op = "get_all" /\ Len(rpc.sent) = 2
    /\ rpc.sent[1].value._updated < rpc.sent[2].value._updated
    /\ \E g \in Glets : task[g].st = "running" /\ task[g].pc = "lines" /\ task[g].nread = 1

\* -------------------------------------------------------------- resync
\* The greenlet enters _run and reaches its first requests.get.
RunStep(g) == task[g].st = "scheduled" /\ task'[g].st = "running"

\* C13: no event is emitted before the greenlet is first run; when it is,
\* with reinit_flag off (a resuming start) it emits before its first request
\* one update per stored record, with the stored value, in ascending
\* _updated order, and with reinit_flag on (a fresh start) it emits nothing;
\* the store is not written.
C13_ResyncOnEntry ==
    /\ [](nfetch = 0 => emitted = <<>>)
    /\ [][\A g \in Glets :
            RunStep(g) =>
              /\ nfetch = 0 /\ nfetch' = 1 /\ task'[g].pc = "request"
              /\ table' = table
              /\ IF cfg.reinit_flag THEN emitted' = emitted
                 ELSE /\ Len(NewEvents) = NumIndicators(table)
                      /\ { NewEvents[i].indicator : i \in DOMAIN NewEvents } = DOMAIN table
                      /\ \A i \in DOMAIN NewEvents :
                           /\ NewEvents[i].type = "update"
                           /\ NewEvents[i].value = table[NewEvents[i].indicator]
                      /\ Ascending(NewEvents)]_vars

\* A resuming greenlet is at its first request and has emitted the two
\* stored records, the older first though its key is the larger.
C13_Witness ==
    /\ ~cfg.reinit_flag /\ nfetch = 1
    /\ \E g \in Glets : task[g].st = "running" /\ task[g].pc = "request"
    /\ Len(emitted) = 2
    /\ emitted[1].indicator = <<"b">> /\ emitted[2].indicator = <<"a">>
    /\ emitted[1].value._updated < emitted[2].value._updated

\* ------------------------------------------------------------- retries
\* An attempt of g ends in an exception that _run catches.
FailStep(g) ==
    /\ task[g].st = "running" /\ task[g].pc \in {"request", "lines"}
    /\ task'[g].st = "running" /\ task'[g].pc \in {"backoff", "sleep"}
    /\ task'[g].last = "error"

\* g begins an attempt: lastrun is read and the request goes out.
AttemptStep(g) ==
    /\ task[g].pc \in {"start", "backoff", "sleep"}
    /\ task'[g].st = "running" /\ task'[g].pc = "request"

MaxAttempts(c) == IF c.num_retries > 1 THEN c.num_retries ELSE 1

\* C14: tryn is 0 at the first attempt and at the attempt that follows an
\* inter-cycle sleep; a failed attempt adds one to it and, if it is then
\* below num_retries, is followed by the backoff sleep alone and the next
\* attempt, and otherwise by the inter-cycle sleep with tryn back to 0; an
\* attempt under way is at most the max(1, num_retries)-th since that sleep.
C14_RetryCounter ==
    /\ [](\A g \in Glets :
            /\ (task[g].st = "running" /\ task[g].pc \in {"request", "lines"})
               => task[g].tryn + 1 <= MaxAttempts(cfg)
            /\ (task[g].st = "running" /\ task[g].pc = "backoff")
               => (task[g].tryn >= 1 /\ task[g].tryn < cfg.num_retries)
            /\ (task[g].st = "running" /\ task[g].pc = "sleep") => task[g].tryn = 0)
    /\ [][\A g \in Glets :
            /\ (AttemptStep(g) /\ task[g].pc \in {"start", "sleep"}) => task'[g].tryn = 0
            /\ (AttemptStep(g) /\ task[g].pc = "backoff")
               => /\ task'[g].tryn = task[g].tryn
                  /\ task'[g].lastrun >= task[g].since + task[g].deltat
            /\ FailStep(g)
               => IF task[g].tryn + 1 < cfg.num_retries
                  THEN /\ task'[g].pc = "backoff" /\ task'[g].tryn = task[g].tryn + 1
                       /\ task'[g].deltat \in Backoffs /\ task'[g].since = clock'
                  ELSE task'[g].pc = "sleep" /\ task'[g].tryn = 0]_vars

\* With num_retries 2, a second attempt followed the backoff of the first
\* and failed too: the greenlet is in the inter-cycle sleep, tryn at 0.
C14_Witness ==
    /\ cfg.num_retries = 2 /\ nfetch = 2
    /\ \E g \in Glets :
        /\ task[g].st = "running" /\ task[g].pc = "sleep"
        /\ task[g].last = "error" /\ task[g].tryn = 0

\* ------------------------------------------------------------ liveness
InSleep == \E g \in Glets : task[g].st = "running" /\ task[g].pc = "sleep"

\* C15: a node that was started and is never stopped keeps its greenlet
\* alive whatever fails and however often; the greenlet is in the
\* inter-cycle sleep again and again and begins an attempt again and again.
C15_RetryNonFatal ==
    /\ [](glet # NoGlet /\ Live(task[glet]))
    /\ []<>InSleep
    /\ []<><<\E g \in Glets : AttemptStep(g)>>_vars

\* Beyond the explored horizon, after an attempt that used up the retries
\* and the sleep that followed, the greenlet is at a request again.
C15_Witness ==
    /\ clock = MaxClock /\ nfetch = MaxFetches
    /\ \E g \in Glets :
        /\ task[g].st = "running" /\ task[g].pc = "request"
        /\ task[g].last = "error" /\ task[g].tryn = 0 /\ task[g].lastrun = MaxClock

\* ----------------------------------------------------- failed attempts
\* C16 as stated: when an attempt fails with the retries used up, the
\* store and the emitted events are what they were when the first attempt
\* of the cycle began: no step since has changed either.
C16_Original ==
    [][\A g \in Glets :
         (FailStep(g) /\ task'[g].pc = "sleep")
         => ~written]_vars

\* ------------------------------------------------------------ the sleep
\* g leaves the cycle for the inter-cycle sleep: lines 133-143.
SleepStep(g) ==
    /\ task[g].st = "running" /\ task[g].pc \in {"request", "lines"}
    /\ task'[g].st = "running" /\ task'[g].pc = "sleep"

\* The smallest of d, d + i, d + 2i, ... that is not negative.
SmallestAdded(d, i) ==
    LET S == { x \in { d + n * i : n \in 0..(MaxClock + 1) } : x >= 0 }
    IN  CHOOSE x \in S : \A y \in S : x <= y

\* C17: for a cycle started at lastrun that reaches line 135 at now, with a
\* positive interval, the time slept is not negative and not above one
\* interval: it is lastrun + interval - now when that is not negative, and
\* otherwise the smallest non-negative value whole intervals added to it
\* give.
C17_SleepWithinInterval ==
    [][\A g \in Glets :
         SleepStep(g) =>
           LET i == cfg.interval_ms
               d == (task[g].lastrun + i) - clock'
           IN  /\ i > 0 /\ clock' >= task[g].lastrun /\ task'[g].since = clock'
               /\ task'[g].deltat >= 0 /\ task'[g].deltat <= i
               /\ d >= 0 => task'[g].deltat = d
               /\ d < 0 => task'[g].deltat = SmallestAdded(d, i)]_vars

\* A cycle started at time 0 with an interval of 1 reached line 135 at time
\* 4: the interval was added three times and the sleep is 0.
C17_Witness ==
    /\ cfg.interval_ms = 1 /\ nfetch = 1
    /\ \E g \in Glets :
        /\ task[g].st = "running" /\ task[g].pc = "sleep"
        /\ task[g].since = 4 /\ task[g].deltat = 0

\* ---------------------------------------------------------- first_seen
\* C18 as stated: the sighting that creates a record stores first_seen equal
\* to last_seen; a later sighting keeps first_seen and stores the time of
\* the sighting as last_seen; a key sighted again after its withdraw is
\* created anew.
C18_Original ==
    [][\A g \in Glets, k \in Indicators :
         Sighted(g, k) =>
           /\ TableHas(table', k)
           /\ table'[k].last_seen = clock'
           /\ IF TableHas(table, k)
              THEN table'[k].first_seen = table[k].first_seen
              ELSE table'[k].first_seen = table'[k].last_seen]_vars

\* ------------------------------------------------- store and event log
\* The keys a consumer holds that applies the events in order: those whose
\* latest event is an update.
Held(log) ==
    { k \in Indicators :
        \E i \in DOMAIN log :
            /\ log[i].indicator = k /\ log[i].type = "update"
            /\ \A j \in (i + 1)..Len(log) : log[j].indicator # k }

InStep == DOMAIN table = Held(emitted)

\* A greenlet has entered _run with reinit_flag off: the resync is done.
ResyncDone == ~cfg.reinit_flag /\ \E g \in Glets : task[g].pc # "start"

\* C19: once the resync of a resuming start is done the stored keys are
\* the keys whose latest event is an update, and no step of the node, in a
\* cycle that succeeds, fails, is retried or is killed, ends that: so they
\* are from the start for a node that starts with an empty store.
C19_StoreMatchesEvents ==
    /\ [](ResyncDone => InStep)
    /\ [](table = <<>> /\ emitted = <<>> => InStep)
    /\ [][InStep => InStep']_vars

\* A node was stopped with a key stored and announced and another key
\* announced, later withdrawn and no longer stored.
C19_Witness ==
    /\ InStep /\ glet # NoGlet /\ task[glet].st = "dead"
    /\ \E k, j \in Indicators :
        /\ TableHas(table, k) /\ Count(emitted, "update", k) = 1
        /\ ~TableHas(table, j)
        /\ Count(emitted, "update", j) = 1 /\ Count(emitted, "withdraw", j) = 1

\* g is killed.
KillStep(g) == Live(task[g]) /\ task'[g].st = "dead"

\* C20: only the step that ends a response read to its last line deletes
\* a record or emits a withdraw, so an attempt that fails or is killed
\* earlier does neither; the step in which an attempt fails or is killed
\* writes nothing, and an attempt at its request or status check has
\* written nothing: the store and the events are as they were.
C20_FailedAttemptKeeps ==
    [][ /\ (\A g \in Glets : ~ScanStep(g))
           => /\ \A k \in DOMAIN table : TableHas(table', k)
              /\ \A k \in Indicators :
                   Count(emitted', "withdraw", k) = Count(emitted, "withdraw", k)
        /\ \A g \in Glets :
             (FailStep(g) \/ KillStep(g) \/ (task[g].st = "running" /\ task[g].pc = "request"))
             => (table' = table /\ emitted' = emitted) ]_vars

\* An attempt failed in the stream after a line was stored: the record no
\* line refreshed is still stored and nothing was withdrawn.
C20_Witness ==
    /\ \E g \in Glets :
        task[g].st = "running" /\ task[g].pc \in {"backoff", "sleep"} /\ task[g].last = "error"
    /\ \E k, j \in DOMAIN table : table[k]._updated = 0 /\ table[j]._updated >= 2
    /\ \A i \in DOMAIN emitted : emitted[i].type = "update"

====
